---- MODULE Spec2Model ----
(***************************************************************************)
(* csvtui: the editing model of src/src/csv_structs.rs.                    *)
(*                                                                         *)
(* CSVModel's fields are the variables headers, grid, state, running,      *)
(* working_states and copy_buffer.  One step of the model is one key press *)
(* handled by CSVView::handle_keyboard_input: CSVModel's dispatch followed *)
(* by render_tui.  A Rust panic ends the process: it is recorded in        *)
(* `panicked`, with the fields as they were when the panic was raised.     *)
(* The terminal that CSVView::run switches to the alternate screen and to  *)
(* raw mode is `alternate_screen` and `raw_mode`, and `pc` is where the    *)
(* process stands in run.                                                  *)
(*                                                                         *)
(* Strings are sequences of one-character strings; Vec indices are 0-based *)
(* as in the source, and are shifted by one where a TLA+ sequence is read. *)
(***************************************************************************)
EXTENDS Integers, Sequences, FiniteSets, TLC

VARIABLES
    headers,          \* CSVModel.headers: Vec<String>
    grid,             \* CSVModel.grid: Vec<Vec<String>>
    state,            \* CSVModel.state: AppState
    running,          \* CSVModel.running
    working_states,   \* CSVModel.working_states: Vec<(headers, grid)>
    copy_buffer,      \* CSVModel.copy_buffer: Option<String>
    panicked,         \* the process has panicked (and is gone)
    file,             \* the document stored at file_path
    alternate_screen, \* the terminal's alternate screen: "never", "entered", "left"
    raw_mode,         \* the terminal's raw mode: "never", "enabled", "disabled"
    pc,               \* CSVView::run: "enter", "raw", "clear", "loop", "disable", "ok", "err"
    nmut,             \* model bound: mutating key presses so far
    doc0,             \* history: the document as loaded
    nOps,             \* history: mutating operations so far (-1: one came after an undo)
    nUndos,           \* history: undo presses so far
    op,               \* history: the last mutating operation
    cp,               \* history: where the clipboard was copied from and pasted to
    lastKey,          \* history: the key just pressed, if a watched one, and the mode before it
    track             \* which of the history variables this run records

vars == <<headers, grid, state, running, working_states, copy_buffer, panicked,
          file, alternate_screen, raw_mode, pc, nmut, doc0, nOps, nUndos, op, cp,
          lastKey, track>>

\* The terminal as the process sees and leaves it.
term == <<alternate_screen, raw_mode, pc>>

prog == <<headers, grid, state, running, working_states, copy_buffer>>

----------------------------------------------------------------------------
(* Bounds of the model *)

\* Key presses other than navigation, undo and confirm allowed in one run.
MaxMut == 2

\* The same on the tall document, which has many more cursor positions.
MaxMutTall == 1

\* The same in the runs that type command characters in the edit modes: a
\* delete, an edit entry and a typed key.
MaxMutEdit == 3

\* usize::MAX, as far as TLC's integers reach; the code only compares it
\* with lengths and steps from it by 1 or 5.
UsizeMax == 2147483647

\* The fixed page size of '{' and '}'.
PageSize == 5

----------------------------------------------------------------------------
(* Strings, Option, Vec *)

EmptyString == <<>>

None == <<>>

Some(v) == <<v>>

\* Vec::insert(index, x): the caller checks index <= len.
VecInsert(s, index, x) ==
    SubSeq(s, 1, index) \o <<x>> \o SubSeq(s, index + 1, Len(s))

\* Vec::remove(index): the caller checks index < len.
VecRemove(s, index) ==
    SubSeq(s, 1, index) \o SubSeq(s, index + 2, Len(s))

\* String::pop: removes the last character, nothing on an empty string.
StringPop(s) == IF Len(s) = 0 THEN s ELSE SubSeq(s, 1, Len(s) - 1)

\* String::push
StringPush(s, c) == Append(s, c)

\* usize subtraction and addition of a release build (wrapping).
wrapping_sub(a, b) == IF a >= b THEN a - b ELSE UsizeMax - (b - a) + 1

wrapping_add(a, b) == IF a <= UsizeMax - b THEN a + b ELSE a - (UsizeMax - b) - 1

\* A min that forgets its first operand: the clamp of a page down is lost.
Min_unclamped(a, b) == b

Min(a, b) == IF a <= b THEN a ELSE b

Max(a, b) == IF a >= b THEN a ELSE b

----------------------------------------------------------------------------
(* AppState *)

Navigating(row, col) == [tag |-> "Navigating", row |-> row, col |-> col]

Editing(row, col) == [tag |-> "Editing", row |-> row, col |-> col]

EditingHeader(col) == [tag |-> "EditingHeader", col |-> col]

----------------------------------------------------------------------------
(* The CSVModel value the operations below transform *)

Model ==
    [headers |-> headers, grid |-> grid, state |-> state, running |-> running,
     working_states |-> working_states, copy_buffer |-> copy_buffer,
     panicked |-> panicked, file |-> file]

Panic(m) == [m EXCEPT !.panicked = TRUE]

Document(m) == <<m.headers, m.grid>>

get_current_row_and_col(m) ==
    IF m.state.tag = "EditingHeader" THEN <<0, m.state.col>>
    ELSE <<m.state.row, m.state.col>>

\* grid[row][col] is an index in range.
CellInRange(m, row, col) ==
    /\ row < Len(m.grid)
    /\ col < Len(m.grid[row + 1])

save_current_state(m) ==
    [m EXCEPT !.working_states = Append(@, <<m.headers, m.grid>>)]

----------------------------------------------------------------------------
(* Document operations *)

\* The first of the row numbers `bad`, or one past the last row.
FirstOf(bad, rows) ==
    IF bad = {} THEN rows + 1 ELSE CHOOSE i \in bad : \A j \in bad : i <= j

\* `for row in self.grid.iter_mut() { row.insert(index, String::new()); }`:
\* the rows are changed in order, and a panic in one row leaves the rows
\* after it as they were.
InsertInRows(m, index) ==
    LET bad  == {i \in 1..Len(m.grid) : index > Len(m.grid[i])}
        stop == FirstOf(bad, Len(m.grid))
    IN  [m EXCEPT !.grid = [i \in 1..Len(m.grid) |->
                               IF i < stop THEN VecInsert(m.grid[i], index, EmptyString)
                               ELSE m.grid[i]],
                  !.panicked = (bad # {})]

\* `for row in self.grid.iter_mut() { row.remove(col); }`
RemoveInRows(m, index) ==
    LET bad  == {i \in 1..Len(m.grid) : index >= Len(m.grid[i])}
        stop == FirstOf(bad, Len(m.grid))
    IN  [m EXCEPT !.grid = [i \in 1..Len(m.grid) |->
                               IF i < stop THEN VecRemove(m.grid[i], index)
                               ELSE m.grid[i]],
                  !.panicked = (bad # {})]

EmptyRow(m) == [i \in 1..Len(m.headers) |-> EmptyString]

insert_empty_row_after(m, row) ==
    LET s == save_current_state(m)
    IN  IF row + 1 > Len(s.grid) THEN Panic(s)
        ELSE [s EXCEPT !.grid = VecInsert(@, row + 1, EmptyRow(s))]

insert_empty_row_before(m, row) ==
    LET s == save_current_state(m)
    IN  IF row > Len(s.grid) THEN Panic(s)
        ELSE [s EXCEPT !.grid = VecInsert(@, row, EmptyRow(s))]

\* A row delete that takes no snapshot.
delete_row_without_snapshot(m, row) ==
    IF row >= Len(m.grid) THEN Panic(m)
    ELSE [m EXCEPT !.grid = VecRemove(@, row)]

delete_row(m, row) ==
    LET s == save_current_state(m)
    IN  IF row >= Len(s.grid) THEN Panic(s)
        ELSE [s EXCEPT !.grid = VecRemove(@, row)]

\* A column insert that forgets the rows.
insert_empty_col_after_headers_only(m, col) ==
    LET s == save_current_state(m)
    IN  IF col + 1 > Len(s.headers) THEN Panic(s)
        ELSE [s EXCEPT !.headers = VecInsert(@, col + 1, EmptyString)]

insert_empty_col_after(m, col) ==
    LET s == save_current_state(m)
    IN  IF col + 1 > Len(s.headers) THEN Panic(s)
        ELSE InsertInRows([s EXCEPT !.headers = VecInsert(@, col + 1, EmptyString)],
                          col + 1)

insert_empty_col_before(m, col) ==
    LET s == save_current_state(m)
    IN  IF col > Len(s.headers) THEN Panic(s)
        ELSE InsertInRows([s EXCEPT !.headers = VecInsert(@, col, EmptyString)], col)

delete_col(m, col) ==
    LET s == save_current_state(m)
    IN  IF col >= Len(s.headers) THEN Panic(s)
        ELSE RemoveInRows([s EXCEPT !.headers = VecRemove(@, col)], col)

\* An undo that reads the top snapshot and leaves it on the stack
\* (Vec::last for Vec::pop).
restore_last_state_peeking(m, overflow_checks) ==
    IF Len(m.working_states) = 0 THEN m
    ELSE LET top == m.working_states[Len(m.working_states)]
             r   == [m EXCEPT !.headers = top[1], !.grid = top[2]]
         IN  IF get_current_row_and_col(r)[1] >= Len(r.grid)
             THEN IF Len(r.grid) = 0 /\ overflow_checks THEN Panic(r)
                  ELSE [r EXCEPT !.state = Navigating(wrapping_sub(Len(r.grid), 1), 0)]
             ELSE r

\* An undo that clamps the row and keeps the column.
restore_last_state_keeping_col(m, overflow_checks) ==
    IF Len(m.working_states) = 0 THEN m
    ELSE LET top == m.working_states[Len(m.working_states)]
             r   == [m EXCEPT !.working_states = SubSeq(@, 1, Len(@) - 1),
                              !.headers = top[1],
                              !.grid = top[2]]
         IN  IF get_current_row_and_col(r)[1] >= Len(r.grid)
             THEN IF Len(r.grid) = 0 /\ overflow_checks THEN Panic(r)
                  ELSE [r EXCEPT !.state = Navigating(wrapping_sub(Len(r.grid), 1),
                                                      get_current_row_and_col(r)[2])]
             ELSE r

\* The cursor is moved only when its row is past the restored grid; the
\* subtraction underflows when the restored grid has no rows.
restore_last_state(m, overflow_checks) ==
    IF Len(m.working_states) = 0 THEN m
    ELSE LET last == m.working_states[Len(m.working_states)]
             r    == [m EXCEPT !.working_states = SubSeq(@, 1, Len(@) - 1),
                               !.headers = last[1],
                               !.grid = last[2]]
         IN  IF get_current_row_and_col(r)[1] >= Len(r.grid)
             THEN IF Len(r.grid) = 0 /\ overflow_checks THEN Panic(r)
                  ELSE [r EXCEPT !.state = Navigating(wrapping_sub(Len(r.grid), 1), 0)]
             ELSE r

copy_selected_cell_to_buffer(m) ==
    IF m.state.tag = "Navigating"
    THEN IF CellInRange(m, m.state.row, m.state.col)
         THEN [m EXCEPT !.copy_buffer = Some(m.grid[m.state.row + 1][m.state.col + 1])]
         ELSE Panic(m)
    ELSE m

\* A paste that moves the value out of the buffer (Option::take).
paste_from_buffer_taking(m) ==
    IF m.state.tag = "Navigating" /\ m.copy_buffer # None
    THEN IF CellInRange(m, m.state.row, m.state.col)
         THEN [m EXCEPT !.grid[m.state.row + 1][m.state.col + 1] = m.copy_buffer[1],
                        !.copy_buffer = None]
         ELSE Panic(m)
    ELSE m

paste_from_buffer(m) ==
    IF m.state.tag = "Navigating" /\ m.copy_buffer # None
    THEN IF CellInRange(m, m.state.row, m.state.col)
         THEN [m EXCEPT !.grid[m.state.row + 1][m.state.col + 1] = m.copy_buffer[1]]
         ELSE Panic(m)
    ELSE m

\* `date` is chrono::Local::now() formatted with "%Y-%m-%d".
paste_date(m, date) ==
    IF m.state.tag = "Navigating"
    THEN IF CellInRange(m, m.state.row, m.state.col)
         THEN [m EXCEPT !.grid[m.state.row + 1][m.state.col + 1] = date]
         ELSE Panic(m)
    ELSE m

\* The file at file_path: a complete document, or what a failed write left.
OnDisk(doc) == [complete |-> TRUE, doc |-> doc]

Truncated == [complete |-> FALSE, doc |-> <<>>]

\* A save that reports Ok(()) whatever became of the write.
save_changes_to_file_swallowing(m, io) ==
    CASE io = "ok"           -> [model |-> [m EXCEPT !.file = OnDisk(Document(m))], ok |-> TRUE]
      [] io = "create_fails" -> [model |-> m, ok |-> TRUE]
      [] io = "write_fails"  -> [model |-> [m EXCEPT !.file = Truncated], ok |-> TRUE]

\* File::create, the records, flush: `io` is how far the write gets.  The
\* result is the Model and whether Ok(()) was returned.
save_changes_to_file(m, io) ==
    CASE io = "ok"           -> [model |-> [m EXCEPT !.file = OnDisk(Document(m))], ok |-> TRUE]
      [] io = "create_fails" -> [model |-> m, ok |-> FALSE]
      [] io = "write_fails"  -> [model |-> [m EXCEPT !.file = Truncated], ok |-> FALSE]

----------------------------------------------------------------------------
(* Key codes: a character key is the one-character string of its character *)

SpecialKeys == {"Enter", "Backspace", "Esc"}

IsChar(key) == key \notin SpecialKeys

\* a - b and a + b on usize: a build with overflow checks panics where the
\* other wraps.
Underflows(a, b) == a < b

Overflows(a, b) == a > UsizeMax - b

SetCell(m, row, col, value) ==
    IF CellInRange(m, row, col)
    THEN [m EXCEPT !.grid[row + 1][col + 1] = value]
    ELSE Panic(m)

\* The arm `AppState::Navigating(selected_row, selected_col) => match key`.
NavigatingArm(m, key, date, overflow_checks, io) ==
    LET selected_row == m.state.row
        selected_col == m.state.col
        rows == Len(m.grid)
    IN
    CASE key = "j" ->
            IF Underflows(rows, 1) /\ overflow_checks THEN Panic(m)
            ELSE IF selected_row < wrapping_sub(rows, 1)
                 THEN [m EXCEPT !.state = Navigating(selected_row + 1, selected_col)]
                 ELSE m
      [] key = "k" ->
            IF selected_row > 0
            THEN [m EXCEPT !.state = Navigating(selected_row - 1, selected_col)]
            ELSE m
      [] key = "h" ->
            IF selected_col > 0
            THEN [m EXCEPT !.state = Navigating(selected_row, selected_col - 1)]
            ELSE m
      [] key = "l" ->
            IF selected_row >= rows THEN Panic(m)
            ELSE LET len == Len(m.grid[selected_row + 1])
                 IN  IF Underflows(len, 1) /\ overflow_checks THEN Panic(m)
                     ELSE IF selected_col < wrapping_sub(len, 1)
                          THEN [m EXCEPT !.state = Navigating(selected_row, selected_col + 1)]
                          ELSE m
      [] key = "}" ->
            IF (Underflows(rows, 1) \/ Overflows(selected_row, PageSize)) /\ overflow_checks
            THEN Panic(m)
            ELSE [m EXCEPT !.state = Navigating(Min(wrapping_sub(rows, 1),
                                                    wrapping_add(selected_row, PageSize)),
                                                selected_col)]
      [] key = "{" ->
            IF selected_row >= PageSize
            THEN [m EXCEPT !.state = Navigating(Max(0, selected_row - PageSize), selected_col)]
            ELSE [m EXCEPT !.state = Navigating(0, selected_col)]
      [] key = "g" -> [m EXCEPT !.state = Navigating(0, selected_col)]
      [] key = "G" ->
            IF Underflows(rows, 1) /\ overflow_checks THEN Panic(m)
            ELSE [m EXCEPT !.state = Navigating(wrapping_sub(rows, 1), selected_col)]
      [] key = "I" -> [m EXCEPT !.state = Navigating(selected_row, 0)]
      [] key = "A" ->
            IF Underflows(Len(m.headers), 1) /\ overflow_checks THEN Panic(m)
            ELSE [m EXCEPT !.state = Navigating(selected_row,
                                                wrapping_sub(Len(m.headers), 1))]
      [] key = "u" -> restore_last_state(m, overflow_checks)
      [] key = "o" ->
            LET r == insert_empty_row_after(m, selected_row)
            IN  IF r.panicked \/ (Overflows(selected_row, 1) /\ overflow_checks)
                THEN Panic(r)
                ELSE [r EXCEPT !.state = Navigating(wrapping_add(selected_row, 1),
                                                    selected_col)]
      [] key = "O" ->
            LET r == insert_empty_row_before(m, selected_row)
            IN  IF r.panicked THEN r
                ELSE [r EXCEPT !.state = Navigating(selected_row, selected_col)]
      [] key = "d" ->
            LET r == delete_row(m, selected_row)
            IN  IF r.panicked THEN r
                ELSE IF selected_row = Len(r.grid)
                     THEN IF Underflows(selected_row, 1) /\ overflow_checks THEN Panic(r)
                          ELSE [r EXCEPT !.state = Navigating(wrapping_sub(selected_row, 1),
                                                              selected_col)]
                     ELSE [r EXCEPT !.state = Navigating(selected_row, selected_col)]
      [] key = "n" ->
            LET r == insert_empty_col_after(m, selected_col)
            IN  IF r.panicked \/ (Overflows(selected_col, 1) /\ overflow_checks)
                THEN Panic(r)
                ELSE [r EXCEPT !.state = Navigating(selected_row,
                                                    wrapping_add(selected_col, 1))]
      [] key = "N" ->
            LET r == insert_empty_col_before(m, selected_col)
            IN  IF r.panicked THEN r
                ELSE [r EXCEPT !.state = Navigating(selected_row, selected_col)]
      [] key = "D" ->
            LET r == delete_col(m, selected_col)
            IN  IF r.panicked THEN r
                ELSE IF selected_col = Len(r.grid)
                     THEN IF Underflows(selected_col, 1) /\ overflow_checks THEN Panic(r)
                          ELSE [r EXCEPT !.state = Navigating(selected_row,
                                                              wrapping_sub(selected_col, 1))]
                     ELSE [r EXCEPT !.state = Navigating(selected_row, selected_col)]
      [] key \in {"i", "Enter"} ->
            [save_current_state(m) EXCEPT !.state = Editing(selected_row, selected_col)]
      [] key = "r" ->
            LET r == SetCell(m, selected_row, selected_col, EmptyString)
            IN  IF r.panicked THEN r
                ELSE [r EXCEPT !.state = Editing(selected_row, selected_col)]
      [] key = "H" ->
            [save_current_state(m) EXCEPT !.state = EditingHeader(selected_col)]
      [] key = "y" -> copy_selected_cell_to_buffer(m)
      [] key = "p" -> paste_from_buffer(save_current_state(m))
      [] key = "." -> paste_date(m, date)
      [] key = "q" ->
            LET w == save_changes_to_file(m, io)
            IN  IF w.ok THEN [w.model EXCEPT !.running = FALSE]
                ELSE Panic(w.model)
      [] OTHER -> m

\* An Editing arm that takes a snapshot at every typed character.
EditingArm_snapshot_per_key(m, key) ==
    LET row == m.state.row
        col == m.state.col
    IN
    CASE key = "Enter" -> [m EXCEPT !.state = Navigating(row, col)]
      [] key = "Backspace" ->
            IF CellInRange(m, row, col)
            THEN SetCell(m, row, col, StringPop(m.grid[row + 1][col + 1]))
            ELSE Panic(m)
      [] IsChar(key) ->
            IF CellInRange(m, row, col)
            THEN SetCell(save_current_state(m), row, col,
                         StringPush(m.grid[row + 1][col + 1], key))
            ELSE Panic(m)
      [] OTHER -> m

\* An Editing arm whose confirm forgets the row, as the header arm does.
EditingArm_confirm_to_top(m, key) ==
    LET row == m.state.row
        col == m.state.col
    IN
    CASE key = "Enter" -> [m EXCEPT !.state = Navigating(0, col)]
      [] key = "Backspace" ->
            IF CellInRange(m, row, col)
            THEN SetCell(m, row, col, StringPop(m.grid[row + 1][col + 1]))
            ELSE Panic(m)
      [] IsChar(key) ->
            IF CellInRange(m, row, col)
            THEN SetCell(m, row, col, StringPush(m.grid[row + 1][col + 1], key))
            ELSE Panic(m)
      [] OTHER -> m

\* The arm `AppState::Editing(row, col) => match key`.
EditingArm(m, key) ==
    LET row == m.state.row
        col == m.state.col
    IN
    CASE key = "Enter" -> [m EXCEPT !.state = Navigating(row, col)]
      [] key = "Backspace" ->
            IF CellInRange(m, row, col)
            THEN SetCell(m, row, col, StringPop(m.grid[row + 1][col + 1]))
            ELSE Panic(m)
      [] IsChar(key) ->
            IF CellInRange(m, row, col)
            THEN SetCell(m, row, col, StringPush(m.grid[row + 1][col + 1], key))
            ELSE Panic(m)
      [] OTHER -> m

\* An EditingHeader arm whose other keys leave the edit mode.
EditingHeaderArm_other_key_leaves(m, key) ==
    LET col == m.state.col
    IN
    CASE key = "Enter" -> [m EXCEPT !.state = Navigating(0, col)]
      [] key = "Backspace" ->
            IF col < Len(m.headers)
            THEN [m EXCEPT !.headers[col + 1] = StringPop(@)]
            ELSE Panic(m)
      [] IsChar(key) ->
            IF col < Len(m.headers)
            THEN [m EXCEPT !.headers[col + 1] = StringPush(@, key)]
            ELSE Panic(m)
      [] OTHER -> [m EXCEPT !.state = Navigating(0, col)]

\* The arm `AppState::EditingHeader(col) => match key`.
EditingHeaderArm(m, key) ==
    LET col == m.state.col
    IN
    CASE key = "Enter" -> [m EXCEPT !.state = Navigating(0, col)]
      [] key = "Backspace" ->
            IF col < Len(m.headers)
            THEN [m EXCEPT !.headers[col + 1] = StringPop(@)]
            ELSE Panic(m)
      [] IsChar(key) ->
            IF col < Len(m.headers)
            THEN [m EXCEPT !.headers[col + 1] = StringPush(@, key)]
            ELSE Panic(m)
      [] OTHER -> m

\* CSVModel::handle_keyboard_input
handle_keyboard_input(m, key, date, overflow_checks, io) ==
    CASE m.state.tag = "Navigating"    -> NavigatingArm(m, key, date, overflow_checks, io)
      [] m.state.tag = "Editing"       -> EditingArm(m, key)
      [] m.state.tag = "EditingHeader" -> EditingHeaderArm(m, key)

\* render_tui reads the model; it indexes grid[0] and divides by its length.
render_tui(m) ==
    IF Len(m.grid) = 0 THEN Panic(m)
    ELSE IF Len(m.grid[1]) = 0 THEN Panic(m)
    ELSE m

\* CSVView::handle_keyboard_input
view_handle_keyboard_input(m, key, date, overflow_checks, io) ==
    LET r == handle_keyboard_input(m, key, date, overflow_checks, io)
    IN  IF r.panicked THEN r ELSE render_tui(r)

----------------------------------------------------------------------------
(* Inputs *)

Name == <<"N", "a", "m", "e">>

Age == <<"A", "g", "e">>

Alice == <<"A", "l", "i", "c", "e">>

Bob == <<"B", "o", "b">>

Thirty == <<"3", "0">>

TwentyFive == <<"2", "5">>

\* The documents a run may load: every row has headers.len() cells.
AliceDoc == << <<Name, Age>>, << <<Alice, Thirty>>, <<Bob, TwentyFive>> >> >>

InitDocs == {AliceDoc}

\* A one-column document with more rows than a page.
TallDoc ==
    << <<Name>>,
       << <<Alice>>, <<Bob>>, <<Thirty>>, <<TwentyFive>>, <<Age>>, <<Name>>,
          <<EmptyString>> >> >>

NavDocs == {AliceDoc, TallDoc}

\* What chrono::Local::now().format("%Y-%m-%d") may give.
Dates == { <<"2", "0", "2", "6", "-", "1", "1", "-", "0", "1">> }

\* The characters typed in the edit modes, and pressed unbound when navigating.
TypedChars == {"3", "1"}

\* Characters that are commands of the Navigating arm, typed in the edit modes.
CommandChars == {"q", "u", "d", "p"}

IoOutcomes == {"ok", "create_fails", "write_fails"}

MoveKeys == {"h", "j", "k", "l"}

PageKeys == {"{", "}"}

JumpKeys == {"g", "G", "I", "A"}

\* The keys that move the cursor's row.
RowKeys == {"j", "k", "}", "{", "g", "G"}

CreateKeys == {"o", "O", "n", "N"}

DeleteKeys == {"d", "D"}

EntryKeys == {"i", "Enter", "r", "H"}

\* The keys of the Navigating arm that start a mutating operation.
OpKeys == CreateKeys \cup DeleteKeys \cup EntryKeys \cup {"p", "."}

\* Keys no arm of the Navigating match names.
UnboundKeys == {"Esc", "Backspace"} \cup TypedChars

----------------------------------------------------------------------------
(* History variables: what the properties need to remember of a run *)

NoOp == [kind |-> "none", doc |-> <<>>, depth |-> 0, after |-> <<>>, phase |-> "none"]

NoCp == [src |-> None, dst |-> None, val |-> EmptyString]

Shape(m) == <<Len(m.headers), Len(m.grid)>>

\* The last mutating operation: its key, the document and the history depth
\* before it, the document when it was complete, and whether it is still being
\* typed ("active"), complete with no key pressed since ("done"), or followed
\* by exactly one undo ("undone").  m2 is the model after the key.
NextOp(m, key, m2) ==
    IF m.state.tag = "Navigating"
    THEN IF key \in OpKeys
         THEN [kind |-> key, doc |-> Document(m), depth |-> Len(m.working_states),
               after |-> Document(m2),
               phase |-> IF key \in EntryKeys THEN "active" ELSE "done"]
         ELSE IF key = "u" /\ op.phase = "done" THEN [op EXCEPT !.phase = "undone"]
         ELSE NoOp
    ELSE IF key = "Enter" /\ op.phase = "active"
         THEN [op EXCEPT !.phase = "done", !.after = Document(m2)]
         ELSE op

\* nOps mutating operations and then nUndos undos; an operation after an undo,
\* or an undo more than the operations, ends the count (nOps = -1).
NextCount(m, key) ==
    IF m.state.tag # "Navigating" \/ nOps = -1 THEN <<nOps, nUndos>>
    ELSE IF key \in OpKeys
         THEN IF nUndos > 0 THEN <<-1, 0>> ELSE <<nOps + 1, 0>>
    ELSE IF key = "u"
         THEN IF nOps = 0 THEN <<0, 0>>
              ELSE IF nUndos < nOps THEN <<nOps, nUndos + 1>> ELSE <<-1, 0>>
    ELSE <<nOps, nUndos>>

\* The keys whose presses are remembered: undo, and a key no arm names.
WatchedKeys == {"u", "Esc"}

NoKey == [key |-> "none", state |-> Navigating(0, 0)]

\* The key just pressed and the mode it was pressed in; forgotten at the next
\* key that is not watched.
NextLast(m, key) ==
    IF key \in WatchedKeys THEN [key |-> key, state |-> m.state] ELSE NoKey

\* The cell the clipboard was copied from, its value then, and the cell it was
\* last pasted to; forgotten when the grid changes shape.
NextCp(m, key, m2) ==
    IF Shape(m2) # Shape(m) \/ m2.panicked THEN NoCp
    ELSE IF m.state.tag # "Navigating" THEN cp
    ELSE IF key = "y"
         THEN [src |-> Some(<<m.state.row, m.state.col>>), dst |-> None,
               val |-> m.grid[m.state.row + 1][m.state.col + 1]]
    ELSE IF key = "p" /\ cp.src # None
         THEN [cp EXCEPT !.dst = Some(<<m.state.row, m.state.col>>)]
    ELSE cp

----------------------------------------------------------------------------
(* The program *)

\* CSVModel::build_from_file_path, from a file that holds `doc`.
build_from_file_path(doc) ==
    [headers |-> doc[1], grid |-> doc[2], state |-> Navigating(0, 0),
     running |-> TRUE, working_states |-> <<>>, copy_buffer |-> None,
     panicked |-> FALSE, file |-> OnDisk(doc)]

\* The model `m` was built from `doc`.
Built(m, doc, tr, c) ==
    /\ headers = m.headers
    /\ grid = m.grid
    /\ state = m.state
    /\ running = m.running
    /\ working_states = m.working_states
    /\ copy_buffer = m.copy_buffer
    /\ panicked = m.panicked
    /\ file = m.file
    /\ nmut = 0
    /\ doc0 = doc
    /\ nOps = 0
    /\ nUndos = 0
    /\ op = NoOp
    /\ cp = c
    /\ lastKey = NoKey
    /\ track = tr

\* A run is taken up in the loop of CSVView::run: the alternate screen is
\* entered and raw mode is enabled.
Start(m, doc, tr, c) ==
    /\ Built(m, doc, tr, c)
    /\ alternate_screen = "entered"
    /\ raw_mode = "enabled"
    /\ pc = "loop"

Init == \E doc \in InitDocs : Start(build_from_file_path(doc), doc, "none", NoCp)

InitOp == \E doc \in InitDocs : Start(build_from_file_path(doc), doc, "op", NoCp)

InitCount == \E doc \in InitDocs : Start(build_from_file_path(doc), doc, "count", NoCp)

InitNav == \E doc \in NavDocs : Start(build_from_file_path(doc), doc, "none", NoCp)

InitEdit == \E doc \in InitDocs : Start(build_from_file_path(doc), doc, "edit", NoCp)

InitKey == \E doc \in InitDocs : Start(build_from_file_path(doc), doc, "key", NoCp)

\* The run is taken up after the cursor was moved to a cell (row, col) and
\* that cell was copied with 'y': no key before has changed anything else.
InitCopied(tr) ==
    \E doc \in InitDocs :
        \E row \in 0..(Len(doc[2]) - 1) :
            \E col \in 0..(Len(doc[1]) - 1) :
                LET at == [build_from_file_path(doc) EXCEPT !.state = Navigating(row, col)]
                IN  Start(copy_selected_cell_to_buffer(at), doc, tr,
                          IF tr = "copy"
                          THEN [src |-> Some(<<row, col>>), dst |-> None,
                                val |-> doc[2][row + 1][col + 1]]
                          ELSE NoCp)

InitCopy == InitCopied("copy")

InitPaste == InitCopied("none")

\* The key presses the bound MaxMut counts: those that may change the
\* document, the history, the clipboard or the file.
Mutates(key) ==
    IF state.tag = "Navigating" THEN key \in OpKeys \cup {"y", "q"}
    ELSE key = "Backspace" \/ IsChar(key)

\* The bound of the run: the tall document gets the smaller one.
MutBudget ==
    IF track = "edit" THEN MaxMutEdit
    ELSE IF Len(doc0[2]) > 2 THEN MaxMutTall ELSE MaxMut

\* What the key press may leave: the build checks arithmetic overflow (a
\* debug profile) or lets it wrap (a release profile).
Outcomes(m, key, date, io) ==
    {view_handle_keyboard_input(m, key, date, overflow_checks, io) :
        overflow_checks \in BOOLEAN}

\* One turn of the loop of CSVView::run: a key press is read and handled.
Press(key, date, io) ==
    /\ pc = "loop"
    /\ running
    /\ ~panicked
    /\ Mutates(key) => nmut < MutBudget
    /\ \E m2 \in Outcomes(Model, key, date, io) :
        /\ headers' = m2.headers
        /\ grid' = m2.grid
        /\ state' = m2.state
        /\ running' = m2.running
        /\ working_states' = m2.working_states
        /\ copy_buffer' = m2.copy_buffer
        /\ panicked' = m2.panicked
        /\ file' = m2.file
        /\ cp' = IF track = "copy" THEN NextCp(Model, key, m2) ELSE cp
        /\ op' = IF track = "op" THEN NextOp(Model, key, m2) ELSE op
    /\ lastKey' = IF track = "key" THEN NextLast(Model, key) ELSE lastKey
    /\ nmut' = IF Mutates(key) THEN nmut + 1 ELSE nmut
    /\ \E c \in {IF track = "count" THEN NextCount(Model, key) ELSE <<nOps, nUndos>>} :
        /\ nOps' = c[1]
        /\ nUndos' = c[2]
    /\ UNCHANGED <<doc0, track, term>>

NoDate == EmptyString

InNavigating == state.tag = "Navigating"

InEdit == state.tag \in {"Editing", "EditingHeader"}

KeyMove == InNavigating /\ \E key \in MoveKeys : Press(key, NoDate, "ok")

KeyPage == InNavigating /\ \E key \in PageKeys : Press(key, NoDate, "ok")

KeyJump == InNavigating /\ \E key \in JumpKeys : Press(key, NoDate, "ok")

KeyUndo == InNavigating /\ Press("u", NoDate, "ok")

KeyCreate == InNavigating /\ \E key \in CreateKeys : Press(key, NoDate, "ok")

KeyDelete == InNavigating /\ \E key \in DeleteKeys : Press(key, NoDate, "ok")

KeyEditEntry == InNavigating /\ \E key \in EntryKeys : Press(key, NoDate, "ok")

KeyCopy == InNavigating /\ Press("y", NoDate, "ok")

KeyPaste == InNavigating /\ Press("p", NoDate, "ok")

KeyPasteDate == InNavigating /\ \E date \in Dates : Press(".", date, "ok")

KeyQuit == InNavigating /\ \E io \in IoOutcomes : Press("q", NoDate, io)

KeyUnbound == InNavigating /\ \E key \in UnboundKeys : Press(key, NoDate, "ok")

EditType == InEdit /\ \E key \in TypedChars : Press(key, NoDate, "ok")

EditBackspace == InEdit /\ Press("Backspace", NoDate, "ok")

EditConfirm == InEdit /\ Press("Enter", NoDate, "ok")

EditOther == InEdit /\ Press("Esc", NoDate, "ok")

Next ==
    \/ KeyMove
    \/ KeyPage
    \/ KeyJump
    \/ KeyUndo
    \/ KeyCreate
    \/ KeyDelete
    \/ KeyEditEntry
    \/ KeyCopy
    \/ KeyPaste
    \/ KeyPasteDate
    \/ KeyQuit
    \/ KeyUnbound
    \/ EditType
    \/ EditBackspace
    \/ EditConfirm
    \/ EditOther

Spec == Init /\ [][Next]_vars

\* The same program, recording the last mutating operation.
SpecOp == InitOp /\ [][Next]_vars

\* The same program, recording the undo or unbound key just pressed.
SpecKey == InitKey /\ [][Next]_vars

\* A command character is typed in an edit mode.
EditTypeCommand == InEdit /\ \E key \in CommandChars : Press(key, NoDate, "ok")

NextEdit ==
    \/ KeyMove
    \/ KeyPage
    \/ KeyJump
    \/ KeyUndo
    \/ KeyCreate
    \/ KeyDelete
    \/ KeyEditEntry
    \/ KeyCopy
    \/ KeyPaste
    \/ KeyPasteDate
    \/ KeyQuit
    \/ KeyUnbound
    \/ EditType
    \/ EditTypeCommand
    \/ EditBackspace
    \/ EditConfirm
    \/ EditOther

\* The same program, with command characters among the typed ones.
SpecEdit == InitEdit /\ [][NextEdit]_vars

\* The same program on a two-column or a tall document.
SpecNav == InitNav /\ [][Next]_vars

\* The same program, counting operations and undos.
SpecCount == InitCount /\ [][Next]_vars

\* The same program after a first copy, recording the cells of the last
\* copy and paste.
SpecCopy == InitCopy /\ [][Next]_vars

\* The same program after a first copy.
SpecPaste == InitPaste /\ [][Next]_vars

----------------------------------------------------------------------------
(* CSVView::run from its first statement to its return *)

\* CSVView::new has built the model; run has not touched the terminal.
InitRun ==
    /\ \E doc \in InitDocs : Built(build_from_file_path(doc), doc, "none", NoCp)
    /\ alternate_screen = "never"
    /\ raw_mode = "never"
    /\ pc = "enter"

\* What is left of the model when a statement of run only moves `pc`.
ModelKept ==
    UNCHANGED <<headers, grid, state, running, working_states, copy_buffer,
                panicked, file, nmut, doc0, nOps, nUndos, op, cp, lastKey, track>>

\* `stdout().execute(EnterAlternateScreen)?`
EnterAlternateScreen ==
    /\ pc = "enter"
    /\ \E ok \in BOOLEAN :
          IF ok THEN alternate_screen' = "entered" /\ pc' = "raw"
          ELSE pc' = "err" /\ UNCHANGED alternate_screen
    /\ UNCHANGED raw_mode
    /\ ModelKept

\* `enable_raw_mode()?`
EnableRawMode ==
    /\ pc = "raw"
    /\ \E ok \in BOOLEAN :
          IF ok THEN raw_mode' = "enabled" /\ pc' = "clear"
          ELSE pc' = "err" /\ UNCHANGED raw_mode
    /\ UNCHANGED alternate_screen
    /\ ModelKept

\* `self.terminal.clear()?`, and the loop is entered: its first statement
\* draws the model as loaded.
ClearTerminal ==
    /\ pc = "clear"
    /\ \E ok \in BOOLEAN :
          IF ok THEN pc' = "loop" /\ panicked' = render_tui(Model).panicked
          ELSE pc' = "err" /\ UNCHANGED panicked
    /\ UNCHANGED <<headers, grid, state, running, working_states, copy_buffer,
                   file, nmut, doc0, nOps, nUndos, op, cp, lastKey, track,
                   alternate_screen, raw_mode>>

InLoop == pc = "loop" /\ running /\ ~panicked

\* `event::read()?` returns an error: run returns it.
ReadError ==
    /\ InLoop
    /\ pc' = "err"
    /\ UNCHANGED <<alternate_screen, raw_mode>>
    /\ ModelKept

\* An event that is no key press: the loop draws the same model again.
OtherEvent ==
    /\ InLoop
    /\ UNCHANGED vars

\* The loop has ended: `stdout().execute(LeaveAlternateScreen)?`
LeaveAlternateScreen ==
    /\ pc = "loop"
    /\ ~running
    /\ ~panicked
    /\ \E ok \in BOOLEAN :
          IF ok THEN alternate_screen' = "left" /\ pc' = "disable"
          ELSE pc' = "err" /\ UNCHANGED alternate_screen
    /\ UNCHANGED raw_mode
    /\ ModelKept

\* `disable_raw_mode()?; Ok(())`
DisableRawMode ==
    /\ pc = "disable"
    /\ \E ok \in BOOLEAN :
          IF ok THEN raw_mode' = "disabled" /\ pc' = "ok"
          ELSE pc' = "err" /\ UNCHANGED raw_mode
    /\ UNCHANGED alternate_screen
    /\ ModelKept

NextRun ==
    \/ EnterAlternateScreen
    \/ EnableRawMode
    \/ ClearTerminal
    \/ KeyMove
    \/ KeyPage
    \/ KeyJump
    \/ KeyUndo
    \/ KeyCreate
    \/ KeyDelete
    \/ KeyEditEntry
    \/ KeyCopy
    \/ KeyPaste
    \/ KeyPasteDate
    \/ KeyQuit
    \/ KeyUnbound
    \/ EditType
    \/ EditBackspace
    \/ EditConfirm
    \/ EditOther
    \/ ReadError
    \/ OtherEvent
    \/ LeaveAlternateScreen
    \/ DisableRawMode

\* The whole of CSVView::run.
SpecRun == InitRun /\ [][NextRun]_vars

\* The process is gone: run has returned to main, or a panic has ended it.
Terminated == panicked \/ pc \in {"ok", "err"}

----------------------------------------------------------------------------
(* Properties *)

Doc == <<headers, grid>>

\* C1: in every reachable state, after any sequence of column inserts and
\* deletes, row operations, edits and undos, every row of the grid has exactly
\* headers.len() cells.
C1_RowsMatchHeaders == \A i \in 1..Len(grid) : Len(grid[i]) = Len(headers)

\* A column and a row were inserted, and the process is alive.
C1_Witness ==
    /\ Len(headers) = 3
    /\ Len(grid) = 3
    /\ Len(working_states) = 2
    /\ ~panicked

\* C2 (as claimed): after every key the process survives, the cursor's row is
\* below grid.len() and its column below the length of the addressed row, or
\* of headers in header-edit mode.
C2_CursorWithinBounds ==
    ~panicked =>
        IF state.tag = "EditingHeader" THEN state.col < Len(headers)
        ELSE /\ state.row < Len(grid)
             /\ state.col < Len(grid[state.row + 1])

\* C3 (as claimed): after N mutating operations of any kinds followed by N
\* undos, back in Navigating mode, the document equals the loaded one.
C3_UndoIsStrictInverse ==
    (~panicked /\ state.tag = "Navigating" /\ nOps >= 1 /\ nUndos = nOps)
        => Doc = doc0

C5_ReplaceEditIsUndoable ==
    (~panicked /\ op.kind = "r") =>
        /\ op.phase \in {"active", "done"} =>
              /\ Len(working_states) = op.depth + 1
              /\ working_states[Len(working_states)] = op.doc
        /\ op.phase = "undone" => Doc = op.doc

CellAt(g, pos) == g[pos[1] + 1][pos[2] + 1]

\* C6 (as claimed): the paste into cell B writes the value cell A had when it
\* was copied, and a later step that changes A, the grid keeping its shape,
\* changes neither B nor the clipboard.
C6_CopyPasteByValue ==
    [][ /\ (cp'.dst # None /\ cp'.dst # cp.dst)
            => CellAt(grid', cp'.dst[1]) = cp.val
        /\ (/\ cp.dst # None
            /\ cp' = cp
            /\ cp.dst # cp.src
            /\ CellAt(grid', cp.src[1]) # CellAt(grid, cp.src[1]))
            => /\ CellAt(grid', cp.dst[1]) = CellAt(grid, cp.dst[1])
               /\ copy_buffer' = copy_buffer ]_vars

C8_EmptyPasteIsNoOp ==
    [][ (KeyPaste /\ copy_buffer = None) => UNCHANGED prog ]_vars

\* C9 (as claimed): '.' pushes one snapshot, the document before the date is
\* written, and one undo right after it restores that document.
C9_PasteDateIsUndoable ==
    (~panicked /\ op.kind = ".") =>
        /\ op.phase = "done" =>
              /\ Len(working_states) = op.depth + 1
              /\ working_states[Len(working_states)] = op.doc
        /\ op.phase = "undone" => Doc = op.doc

Pressed(key) == InNavigating /\ Press(key, NoDate, "ok")

\* C10: each of 'o', 'O', 'd', 'n', 'N', 'D' pushes exactly one snapshot, the
\* document before the key; the navigation keys and copy leave the history
\* as it is.  (Written effect first: a step is of the key only if it has the
\* key's effect on the history.)
C10_StructuralKeysPushOneSnapshot ==
    [][ /\ \A key \in CreateKeys \cup DeleteKeys :
              \/ working_states' = Append(working_states, Doc)
              \/ ~Pressed(key)
        /\ \A key \in MoveKeys \cup PageKeys \cup JumpKeys \cup {"y"} :
              \/ working_states' = working_states
              \/ ~Pressed(key) ]_vars

\* A row was deleted: the history holds the loaded document.
C10_Witness ==
    /\ ~panicked
    /\ Len(grid) = 1
    /\ working_states = <<doc0>>

\* C11 (as claimed): 'd' on a one-row grid leaves a zero-row grid and no
\* panic, and on a zero-row grid no row-relative navigation key and no undo
\* panics.
C11_DeleteOnlyRowIsLegal ==
    [][ /\ (Len(grid) = 1 /\ Pressed("d"))
            => (~panicked' /\ Len(grid') = 0)
        /\ \A key \in RowKeys \cup {"u"} :
              (Len(grid) = 0 /\ Pressed(key)) => ~panicked' ]_vars

Quit(io) == InNavigating /\ Press("q", NoDate, io)

\* C12: the quit key writes the whole document to the file and only then
\* stops the loop; a quit whose write fails ends the process in a panic with
\* the loop not stopped, and run returns Ok only with the document on file.
C12_QuitSavesBeforeStopping ==
    [][ /\ \/ /\ file' = OnDisk(Doc)
              /\ ~running'
              /\ ~panicked'
              /\ Doc' = Doc
           \/ ~Quit("ok")
        /\ \A io \in IoOutcomes \ {"ok"} :
              \/ panicked' /\ running'
              \/ ~Quit(io)
        /\ (~running' \/ pc' = "ok") => (~panicked' /\ file' = OnDisk(Doc')) ]_vars

\* A row was deleted, the document was saved and run has returned Ok.
C12_Witness ==
    /\ pc = "ok"
    /\ ~running
    /\ Len(grid) = 1
    /\ file = OnDisk(Doc)
    /\ Doc # doc0

\* C13 (as claimed): the process having entered the alternate screen and
\* enabled raw mode, it does not end before it has left the one and disabled
\* the other.
C13_TerminalRestoredOnExit ==
    (Terminated /\ alternate_screen # "never" /\ raw_mode # "never")
        => (alternate_screen = "left" /\ raw_mode = "disabled")

\* C14: a key no Navigating arm names, and in the edit modes a key that is
\* neither a character nor Backspace nor Enter, leaves mode, cursor, document,
\* history, clipboard and running flag as they were, and nothing panics.
C14_UnboundKeysAreNoOps ==
    [][ \/ UNCHANGED prog /\ ~panicked'
        \/ ~(KeyUnbound \/ EditOther) ]_vars

\* Esc was pressed in a header edit that had changed the header.
C14_Witness ==
    /\ ~panicked
    /\ lastKey.key = "Esc"
    /\ lastKey.state.tag = "EditingHeader"
    /\ state = lastKey.state
    /\ headers # doc0[1]
    /\ working_states = <<doc0>>

\* C15: undo with an empty history changes nothing and does not panic; with a
\* history it removes exactly the top snapshot, which becomes the document.
C15_UndoPopsTopSnapshot ==
    [][ \/ IF working_states = <<>>
           THEN UNCHANGED prog /\ ~panicked'
           ELSE /\ working_states' = SubSeq(working_states, 1, Len(working_states) - 1)
                /\ Doc' = working_states[Len(working_states)]
        \/ ~KeyUndo ]_vars

\* A row delete was undone: the document is back and its snapshot is gone.
C15_Witness ==
    /\ ~panicked
    /\ op.kind = "d"
    /\ op.phase = "undone"
    /\ op.after # op.doc
    /\ Doc = op.doc
    /\ Len(working_states) = op.depth

\* C16 (as claimed): 'd' on the last row leaves the cursor on the new last
\* row and 'D' on the last column leaves it on the new last column, whatever
\* the grid's shape; a delete elsewhere leaves the cursor's indices alone.
C16_DeleteClampsCursor ==
    [][ /\ (Pressed("d") /\ ~panicked')
            => state' = Navigating(IF state.row = Len(grid) - 1
                                   THEN Len(grid') - 1 ELSE state.row,
                                   state.col)
        /\ (Pressed("D") /\ ~panicked')
            => state' = Navigating(state.row,
                                   IF state.col = Len(headers) - 1
                                   THEN Len(headers') - 1 ELSE state.col) ]_vars

\* C17: an undo that restores no more rows than the cursor's row index puts
\* the cursor at (rows.len() - 1, 0); any other undo leaves mode and cursor.
C17_UndoClampsRow ==
    [][ \/ ~InNavigating
        \/ IF working_states # <<>> /\ Len(grid') <= state.row
           THEN state' = Navigating(Len(grid') - 1, 0)
           ELSE state' = state
        \/ ~KeyUndo ]_vars

\* The cursor stood at (2,1) on an inserted third row; the undo restored two
\* rows and put it at (1,0).
C17_Witness ==
    /\ ~panicked
    /\ lastKey.key = "u"
    /\ lastKey.state = Navigating(2, 1)
    /\ Len(grid) = 2
    /\ state = Navigating(1, 0)

\* C18: in Navigating mode 'h', 'j', 'k', 'l' move the cursor one cell, or
\* not at all at the grid's edge; '}' and '{' move the row by 5, clamped to
\* [0, rows.len() - 1]; 'g', 'G', 'I', 'A' land on row 0, the last row,
\* column 0 and the row's last column; document, history and clipboard stay.
C18_NavigationMovesOnlyTheCursor ==
    [][ \A key \in MoveKeys \cup PageKeys \cup JumpKeys :
          \/ ~InNavigating
          \/ LET row == state.row
                 col == state.col
                 lastRow == Len(grid) - 1
                 lastCol == Len(grid[row + 1]) - 1
             IN  /\ Doc' = Doc
                 /\ working_states' = working_states
                 /\ copy_buffer' = copy_buffer
                 /\ state' =
                      CASE key = "j" -> Navigating(IF row < lastRow THEN row + 1 ELSE row, col)
                        [] key = "k" -> Navigating(IF row > 0 THEN row - 1 ELSE row, col)
                        [] key = "h" -> Navigating(row, IF col > 0 THEN col - 1 ELSE col)
                        [] key = "l" -> Navigating(row, IF col < lastCol THEN col + 1 ELSE col)
                        [] key = "}" -> Navigating(IF row + 5 > lastRow THEN lastRow ELSE row + 5, col)
                        [] key = "{" -> Navigating(IF row - 5 < 0 THEN 0 ELSE row - 5, col)
                        [] key = "g" -> Navigating(0, col)
                        [] key = "G" -> Navigating(lastRow, col)
                        [] key = "I" -> Navigating(row, 0)
                        [] key = "A" -> Navigating(row, lastCol)
          \/ ~Pressed(key) ]_vars

\* On the tall document the cursor went a page down and one row back up.
C18_Witness ==
    /\ ~panicked
    /\ Doc = TallDoc
    /\ Doc = doc0
    /\ working_states = <<>>
    /\ copy_buffer = None
    /\ state = Navigating(4, 0)

\* C19 (as claimed): 'o' and 'n' leave the cursor one past its old row or
\* column, 'O' and 'N' where it was; the cell under the cursor then is an
\* empty cell of the new row or column; a new row is headers.len() empty
\* strings, and the cells there were keep their values and their order.
C19_CreatePutsCursorOnNewElement ==
    [][ \A key \in CreateKeys :
          Pressed(key) =>
            LET at == IF key \in {"o", "n"} THEN 1 ELSE 0
                row == IF key \in {"o", "O"} THEN state.row + at ELSE state.row
                col == IF key \in {"n", "N"} THEN state.col + at ELSE state.col
            IN  /\ ~panicked'
                /\ state' = Navigating(row, col)
                /\ row < Len(grid')
                /\ col < Len(grid'[row + 1])
                /\ grid'[row + 1][col + 1] = EmptyString
                /\ IF key \in {"o", "O"}
                   THEN /\ headers' = headers
                        /\ grid' = VecInsert(grid, row,
                                             [i \in 1..Len(headers) |-> EmptyString])
                   ELSE /\ headers' = VecInsert(headers, col, EmptyString)
                        /\ Len(grid') = Len(grid)
                        /\ \A i \in 1..Len(grid) :
                              grid'[i] = VecInsert(grid[i], col, EmptyString) ]_vars

\* C20: Enter in Editing(row, col) gives Navigating(row, col) and in
\* EditingHeader(col) gives Navigating(0, col), the document staying as it
\* is, empty string or not; an edit mode is entered from Navigating mode only
\* and is left by that Enter only.
C20_ConfirmReturnsToNavigating ==
    [][ /\ \/ ~InEdit
           \/ /\ state' = Navigating(IF state.tag = "Editing" THEN state.row ELSE 0,
                                     state.col)
              /\ Doc' = Doc
              /\ ~panicked'
           \/ ~EditConfirm
        /\ (state'.tag # state.tag /\ state'.tag # "Navigating") => InNavigating
        /\ (state'.tag # state.tag /\ InEdit) => EditConfirm ]_vars

\* A cell was cleared with 'r' and the empty string was confirmed.
C20_Witness ==
    /\ ~panicked
    /\ state = Navigating(1, 0)
    /\ Len(grid) = 2
    /\ grid[2][1] = EmptyString
    /\ headers = doc0[1]
    /\ working_states = <<>>

\* C21 (as claimed): in an edit mode a typed character is appended to the
\* cell or header under edit and Backspace removes its last character, or
\* nothing from an empty string, without a panic; the other cells and
\* headers, the grid's shape, the history and the clipboard stay.
C21_TypingEditsOnlyTheTarget ==
    [][ \A key \in TypedChars \cup CommandChars \cup {"Backspace"} :
          (InEdit /\ Press(key, NoDate, "ok")) =>
            /\ ~panicked'
            /\ working_states' = working_states
            /\ copy_buffer' = copy_buffer
            /\ IF state.tag = "Editing"
               THEN /\ state.row < Len(grid)
                    /\ state.col < Len(grid[state.row + 1])
                    /\ headers' = headers
                    /\ grid' = [grid EXCEPT ![state.row + 1][state.col + 1] =
                                  IF key # "Backspace" THEN Append(@, key)
                                  ELSE IF @ = <<>> THEN @
                                  ELSE SubSeq(@, 1, Len(@) - 1)]
               ELSE /\ state.col < Len(headers)
                    /\ grid' = grid
                    /\ headers' = [headers EXCEPT ![state.col + 1] =
                                     IF key # "Backspace" THEN Append(@, key)
                                     ELSE IF @ = <<>> THEN @
                                     ELSE SubSeq(@, 1, Len(@) - 1)] ]_vars

\* C22 (as claimed): only the quit key pressed in Navigating mode clears the
\* running flag or writes the file; in an edit mode 'q', 'u', 'd' and 'p'
\* are appended to the string under edit, and no key pressed there stops the
\* loop, writes the file, takes a snapshot off the history or changes the
\* grid's shape.
C22_CommandsAreTextInEditModes ==
    [][ /\ (running' # running \/ file' # file) => \E io \in IoOutcomes : Quit(io)
        /\ InEdit =>
              /\ running' = running
              /\ file' = file
              /\ working_states' = working_states
              /\ Len(headers') = Len(headers)
              /\ Len(grid') = Len(grid)
              /\ \A i \in 1..Len(grid) : Len(grid'[i]) = Len(grid[i])
        /\ \A key \in CommandChars :
              (InEdit /\ Press(key, NoDate, "ok")) =>
                /\ ~panicked'
                /\ state' = state
                /\ IF state.tag = "Editing"
                   THEN /\ state.row < Len(grid)
                        /\ state.col < Len(grid[state.row + 1])
                        /\ grid'[state.row + 1][state.col + 1]
                              = Append(grid[state.row + 1][state.col + 1], key)
                   ELSE /\ state.col < Len(headers)
                        /\ headers'[state.col + 1] = Append(headers[state.col + 1], key) ]_vars

====
